---- MODULE Spec2Model ----
(***************************************************************************)
(* Model of scripts/stats_script.py: the fetch-aggregate-render run of the *)
(* GitHub statistics generator.  One run is main(); get_achievements() is  *)
(* a second module-level entry point.  Exceptions are modelled by their    *)
(* class name, HTTP exchanges by the kind of the response the server (or   *)
(* the transport) gives, Python dicts by functions over their keys.        *)
(***************************************************************************)
EXTENDS Integers, Sequences, FiniteSets, TLC

\* ------------------------------------------------------------- bounds
\* Longest repository list returned by /users/{username}/repos.
MaxRepos == 3
\* Most contribution days in a contribution calendar.
MaxDays == 4

\* ------------------------------------------------- program constants
\* Config.MIN_REMAINING_CALLS
MIN_REMAINING_CALLS == 50
\* @retry_on_error(max_retries=3, delay=5)
max_retries == 3
delay == 5

VARIABLES
    GITHUB_TOKEN,      \* Config.GITHUB_TOKEN = os.getenv("GITHUB_TOKEN")
    USERNAME,          \* Config.USERNAME = os.getenv("USERNAME")
    entry,             \* the entry point that was called
    pc,                \* position of the run
    outcome,           \* "running", "returned" or "raised" (of the entry point)
    exc,               \* class of the exception the entry point raised, or "none"
    requested,         \* an HTTP request (rate_limit GET, REST GET, POST) has been sent
    lastSent,          \* HTTP requests sent by the most recent step
    lastSlept,         \* seconds the most recent step spent in time.sleep
    limits,            \* the /rate_limit response of a stand-alone validate_rate_limit call
    rlOutcome,         \* what the most recent validate_rate_limit did, and whether it warned
    rateLimitRaised,   \* validate_rate_limit has raised RateLimitError in this run
    att,               \* the most recent attempt of fetch_data / graphql_query
    gq,                \* the running call of the retry-wrapped graphql_query
    outer,             \* the retry wrapper around get_contribution_history
    repos,             \* server: the account's repository list (REST)
    calendar,          \* server: the account's contribution calendar (GraphQL)
    user_data, repo_data, contributions,     \* locals of main
    ext_stats, contribution_counts,          \* locals of _draw_statistics
    contribution_data,                       \* calendar returned by get_contribution_history
    achievements,                            \* result of get_achievements
    all_days, max_streak, first_contribution,\* locals of get_achievements
    tempFiles,         \* temporary chart files that exist on disk
    outputWrites,      \* times Config.OUTPUT_IMAGE was written
    cleanup            \* what create_image's finally clause did

vars == << GITHUB_TOKEN, USERNAME, entry, pc, outcome, exc, requested, lastSent, lastSlept,
           limits, rlOutcome, rateLimitRaised, att, gq, outer, repos, calendar,
           user_data, repo_data, contributions, ext_stats, contribution_counts,
           contribution_data, achievements, all_days, max_streak,
           first_contribution, tempFiles, outputWrites, cleanup >>

\* ------------------------------------------------------ Python values
\* os.getenv gives None for a variable that is not set.
Absent == "<None>"
EnvValues == {Absent, "", "x"}
\* Python truthiness of an optional string: None and "" are falsy.
Truthy(v) == v # Absent /\ v # ""

EmptyDict == [k \in {} |-> 0]
NoneVal == [none |-> TRUE]

\* ------------------------------------------------- rate-limit guard
\* Remaining counts a /rate_limit response may carry per category.
RemainingValues == {0, 1, MIN_REMAINING_CALLS - 1, MIN_REMAINING_CALLS}

\* What check_rate_limit's GET can yield: the resources of a 200 response,
\* a transport failure, or a non-2xx status (raise_for_status).
RateLimitResponses ==
    [status : {"ok"}, core : RemainingValues, graphql : RemainingValues,
     search : RemainingValues]
    \cup [status : {"transport", "http_error"}, core : {0}, graphql : {0}, search : {0}]

Quota(core, graphql, search) ==
    [status |-> "ok", core |-> core, graphql |-> graphql, search |-> search]

\* The responses drawn during a run: ample quota, low quota, each category
\* exhausted in turn, and the two failures of the GET itself.
RunRateLimitResponses ==
    {Quota(MIN_REMAINING_CALLS, MIN_REMAINING_CALLS, MIN_REMAINING_CALLS),
     Quota(1, MIN_REMAINING_CALLS - 1, MIN_REMAINING_CALLS),
     Quota(0, MIN_REMAINING_CALLS, MIN_REMAINING_CALLS),
     Quota(MIN_REMAINING_CALLS, 0, 1),
     Quota(1, 1, 0)}
    \cup [status : {"transport", "http_error"}, core : {0}, graphql : {0}, search : {0}]

NoLimits == [status |-> "unqueried", core |-> 0, graphql |-> 0, search |-> 0]

\* any(remaining < bound for remaining in [core, graphql, search])
AnyBelow(resp, bound) ==
    \E remaining \in {resp.core, resp.graphql, resp.search} : remaining < bound

\* A variant that raises as soon as a category is below the warning threshold.
ValidateRateLimitLowThreshold(resp) ==
    IF resp.status # "ok"
    THEN [raises |-> "RequestException", warned |-> FALSE]
    ELSE [raises |-> IF AnyBelow(resp, MIN_REMAINING_CALLS) THEN "RateLimitError" ELSE "none",
          warned |-> AnyBelow(resp, MIN_REMAINING_CALLS)]

\* validate_rate_limit on the response check_rate_limit obtained: the
\* exception it raises ("none" when it returns) and whether it logged the
\* low-quota warning.
validate_rate_limit(resp) ==
    IF resp.status # "ok"
    THEN [raises |-> "RequestException", warned |-> FALSE]
    ELSE [raises |-> IF AnyBelow(resp, 1) THEN "RateLimitError" ELSE "none",
          warned |-> AnyBelow(resp, MIN_REMAINING_CALLS)]

\* ------------------------------------------------------ configuration
\* A variant that tests the token only.
ConfigValidateTokenOnly(token, username) ==
    IF ~Truthy(token) THEN "ValueError" ELSE "none"

\* Config.validate: the exception it raises, "none" when it returns.
ConfigValidate(token, username) ==
    IF ~Truthy(token) \/ ~Truthy(username) THEN "ValueError" ELSE "none"

\* ------------------------------------------------------------ frames
envVars == << GITHUB_TOKEN, USERNAME, entry >>
serverVars == << repos, calendar >>
mainVars == << user_data, repo_data, contributions >>
drawVars == << ext_stats, contribution_counts, contribution_data >>
achVars == << achievements, all_days, max_streak, first_contribution >>
fileVars == << tempFiles, outputWrites, cleanup >>

\* The bookkeeping of one attempt that called validate_rate_limit (guard is
\* what it did) and sent `sent` HTTP requests, a data request among them
\* when dataSent.
Account(fn, guard, sent, dataSent) ==
    /\ requested' = (requested \/ sent > 0)
    /\ lastSent' = sent
    /\ rlOutcome' = guard
    /\ rateLimitRaised' = (rateLimitRaised \/ guard.raises = "RateLimitError")
    /\ att' = [fn |-> fn, guard |-> guard.raises, dataSent |-> dataSent]

NoRequest ==
    /\ lastSent' = 0
    /\ UNCHANGED << requested, rlOutcome, rateLimitRaised, att >>

\* The entry point ends by raising e (main logs and re-raises).
Raise(e) ==
    /\ outcome' = "raised"
    /\ exc' = e
    /\ pc' = "done"

\* ---------------------------------------------------------- REST layer
\* What the data GET of fetch_data can meet.
RestKinds == {"ok", "transport", "http_error"}

\* A variant that sends the GET whatever the guard did.
fetch_dataUnguarded(rl, kind) ==
    LET guard == validate_rate_limit(rl) IN
    [guard |-> guard, sent |-> 2, dataSent |-> TRUE,
     raises |-> IF guard.raises # "none" THEN guard.raises
                ELSE IF kind = "ok" THEN "none" ELSE "RequestException"]

\* fetch_data: the guard first, then one GET; nothing is retried.
fetch_data(rl, kind) ==
    LET guard == validate_rate_limit(rl) IN
    IF guard.raises # "none"
    THEN [guard |-> guard, sent |-> 1, dataSent |-> FALSE, raises |-> guard.raises]
    ELSE [guard |-> guard, sent |-> 2, dataSent |-> TRUE,
          raises |-> IF kind = "ok" THEN "none" ELSE "RequestException"]

\* sum(repo["stargazers_count"] for repo in repos)
RECURSIVE SumStars(_)
SumStars(rs) ==
    IF rs = << >> THEN 0 ELSE Head(rs).stargazers_count + SumStars(Tail(rs))

\* A repository without a detected language carries null (or "").
NoLanguage == Absent

\* The loop of get_repo_data over repos, languages being the dict so far.
RECURSIVE CountLanguages(_, _)
CountLanguages(rs, languages) ==
    IF rs = << >> THEN languages
    ELSE LET l == Head(rs).language
             n == IF l \in DOMAIN languages THEN languages[l] ELSE 0
         IN IF Truthy(l)
            THEN CountLanguages(Tail(rs),
                   [k \in DOMAIN languages \cup {l} |-> IF k = l THEN n + 1 ELSE languages[k]])
            ELSE CountLanguages(Tail(rs), languages)

\* A variant that sums the stars of repositories with a language only.
RepoSummaryLanguageOnly(rs) ==
    [stars |-> SumStars(SelectSeq(rs, LAMBDA r : Truthy(r.language))),
     languages |-> CountLanguages(rs, EmptyDict)]

\* The dict get_repo_data returns for a repository list.
RepoSummary(rs) ==
    [stars |-> SumStars(rs), languages |-> CountLanguages(rs, EmptyDict)]

NoData == [unset |-> TRUE]

\* ---------------------------------------------------------------- main
\* main, line 615: Config.validate() before anything else.
MainConfigValidate ==
    /\ pc = "main"
    /\ LET e == ConfigValidate(GITHUB_TOKEN, USERNAME) IN
         IF e = "none"
         THEN pc' = "main_rate_limit" /\ UNCHANGED << outcome, exc >>
         ELSE Raise(e)
    /\ NoRequest
    /\ lastSlept' = 0
    /\ UNCHANGED << envVars, limits, gq, outer, serverVars, mainVars,
                    drawVars, achVars, fileVars >>

\* main, line 617: validate_rate_limit().
MainValidateRateLimit ==
    /\ pc = "main_rate_limit"
    /\ \E rl \in RunRateLimitResponses :
         LET guard == validate_rate_limit(rl) IN
           /\ Account("validate_rate_limit", guard, 1, FALSE)
           /\ IF guard.raises = "none"
              THEN pc' = "get_user_data" /\ UNCHANGED << outcome, exc >>
              ELSE Raise(guard.raises)
    /\ lastSlept' = 0
    /\ UNCHANGED << envVars, limits, gq, outer, serverVars, mainVars,
                    drawVars, achVars, fileVars >>

\* main, line 621: get_user_data().
GetUserData ==
    /\ pc = "get_user_data"
    /\ \E rl \in RunRateLimitResponses, kind \in RestKinds :
         LET f == fetch_data(rl, kind) IN
           /\ Account("fetch_data", f.guard, f.sent, f.dataSent)
           /\ IF f.raises = "none"
              THEN /\ user_data' = [username |-> USERNAME]
                   /\ pc' = "get_repo_data"
                   /\ UNCHANGED << outcome, exc >>
              ELSE Raise(f.raises) /\ UNCHANGED user_data
    /\ lastSlept' = 0
    /\ UNCHANGED << envVars, limits, gq, outer, serverVars, repo_data,
                    contributions, drawVars, achVars, fileVars >>

\* main, line 622: get_repo_data().
GetRepoData ==
    /\ pc = "get_repo_data"
    /\ \E rl \in RunRateLimitResponses, kind \in RestKinds :
         LET f == fetch_data(rl, kind) IN
           /\ Account("fetch_data", f.guard, f.sent, f.dataSent)
           /\ IF f.raises = "none"
              THEN /\ repo_data' = RepoSummary(repos)
                   /\ pc' = "get_contributions"
                   /\ UNCHANGED << outcome, exc >>
              ELSE Raise(f.raises) /\ UNCHANGED repo_data
    /\ lastSlept' = 0
    /\ UNCHANGED << envVars, limits, gq, outer, serverVars, user_data,
                    contributions, drawVars, achVars, fileVars >>

\* server: the search results of the issues query (issues.get("items", [])).
IssueItems == << "issue", "pull" >>

\* main, line 623: get_contributions().
GetContributions ==
    /\ pc = "get_contributions"
    /\ \E rl \in RunRateLimitResponses, kind \in RestKinds :
         LET f == fetch_data(rl, kind) IN
           /\ Account("fetch_data", f.guard, f.sent, f.dataSent)
           /\ IF f.raises = "none"
              THEN /\ contributions' = Len(IssueItems)
                   /\ pc' = "create_image"
                   /\ UNCHANGED << outcome, exc >>
              ELSE Raise(f.raises) /\ UNCHANGED contributions
    /\ lastSlept' = 0
    /\ UNCHANGED << envVars, limits, gq, outer, serverVars, user_data,
                    repo_data, drawVars, achVars, fileVars >>

\* ------------------------------------------------------- GraphQL layer
\* What the POST of graphql_query can meet: a transport failure, a non-2xx
\* status, or a 200 response whose body carries errors, lacks data or user
\* in one of several ways, lacks nested fields, or is complete.
GraphqlKinds == {"transport", "http_error", "errors", "no_data", "null_data",
                 "empty_data", "no_user", "null_user", "partial", "ok"}

\* response.json() of a 200 response of the given kind; user is the user
\* object a complete response to the query carries.
Body(kind, user) ==
    CASE kind = "errors"     -> [errors |-> << "NOT_FOUND" >>, data |-> NoneVal]
      [] kind = "no_data"    -> [message |-> "accepted"]
      [] kind = "null_data"  -> [data |-> NoneVal]
      [] kind = "empty_data" -> [data |-> EmptyDict]
      [] kind = "no_user"    -> [data |-> [viewer |-> NoneVal]]
      [] kind = "null_user"  -> [data |-> [user |-> NoneVal]]
      [] kind = "partial"    -> [data |-> [user |-> [login |-> "x"]]]
      [] OTHER               -> [data |-> [user |-> user]]

\* One invocation of the body of graphql_query (lines 171-191).
graphql_query(rl, kind, user) ==
    LET guard == validate_rate_limit(rl) IN
    IF guard.raises # "none"
    THEN [guard |-> guard, sent |-> 1, dataSent |-> FALSE, raises |-> guard.raises,
          result |-> NoData]
    ELSE IF kind \in {"transport", "http_error"}
    THEN [guard |-> guard, sent |-> 2, dataSent |-> TRUE, raises |-> "RequestException",
          result |-> NoData]
    ELSE IF "errors" \in DOMAIN Body(kind, user)
    THEN [guard |-> guard, sent |-> 2, dataSent |-> TRUE, raises |-> "Exception",
          result |-> NoData]
    ELSE [guard |-> guard, sent |-> 2, dataSent |-> TRUE, raises |-> "none",
          result |-> Body(kind, user)]

\* The state of one call of a function wrapped by retry_on_error: the
\* wrapper's retries, the invocations of the wrapped function, the sleeps
\* and the seconds slept, the POSTs sent on its behalf, how many of them met
\* a transport failure or a non-2xx status, what the latest one met, and how
\* the call ended.
FreshCall ==
    [site |-> "none", retries |-> 0, attempts |-> 0, sleeps |-> 0, waited |-> 0,
     posts |-> 0, postFailures |-> 0, answer |-> "none", status |-> "running",
     result |-> NoData, exc |-> "none", last |-> "none"]

\* A variant that sleeps after the last failed attempt too.
retry_on_errorSleepFirst(w, r) ==
    IF ~(w.retries < max_retries)
    THEN [w EXCEPT !.status = "returned", !.result = NoneVal]
    ELSE IF r.raises = "none"
    THEN [w EXCEPT !.attempts = @ + 1, !.status = "returned", !.result = r.result,
                   !.last = "none"]
    ELSE IF w.retries + 1 = max_retries
    THEN [w EXCEPT !.attempts = @ + 1, !.retries = @ + 1, !.sleeps = @ + 1,
                   !.waited = @ + delay, !.status = "raised", !.exc = r.raises,
                   !.last = r.raises]
    ELSE [w EXCEPT !.attempts = @ + 1, !.retries = @ + 1, !.sleeps = @ + 1,
                   !.waited = @ + delay, !.last = r.raises]

\* One iteration of the loop of retry_on_error's wrapper (lines 154-163),
\* r being what the wrapped function did; when the loop condition fails the
\* wrapper returns None (line 164).
retry_on_error(w, r) ==
    IF ~(w.retries < max_retries)
    THEN [w EXCEPT !.status = "returned", !.result = NoneVal]
    ELSE IF r.raises = "none"
    THEN [w EXCEPT !.attempts = @ + 1, !.status = "returned", !.result = r.result,
                   !.last = "none"]
    ELSE IF w.retries + 1 = max_retries
    THEN [w EXCEPT !.attempts = @ + 1, !.retries = @ + 1, !.status = "raised",
                   !.exc = r.raises, !.last = r.raises]
    ELSE [w EXCEPT !.attempts = @ + 1, !.retries = @ + 1, !.sleeps = @ + 1,
                   !.waited = @ + delay, !.last = r.raises]

\* ---------------------------------------------------- server-side data
RepoName(i) == "repo" \o ToString(i)

\* Counts the account's GraphQL user object reports.
ServerCounts ==
    [totalCommitContributions |-> 4, totalIssueContributions |-> 3,
     totalPullRequestContributions |-> 2, totalPullRequestReviewContributions |-> 1,
     restrictedContributionsCount |-> 5, starredRepositories |-> 6,
     issues |-> 7, pullRequests |-> 8, followers |-> 9, following |-> 10]

\* Days since repository i was created (the list is newest first).
AgeDays(i) == 500 * i

ContributionsCollection(cal) ==
    [totalCommitContributions |-> ServerCounts.totalCommitContributions,
     totalIssueContributions |-> ServerCounts.totalIssueContributions,
     totalPullRequestContributions |-> ServerCounts.totalPullRequestContributions,
     totalPullRequestReviewContributions |->
         ServerCounts.totalPullRequestReviewContributions,
     restrictedContributionsCount |-> ServerCounts.restrictedContributionsCount,
     contributionCalendar |-> cal]

RepoNodes(rs) ==
    [i \in 1..Len(rs) |->
        [name |-> RepoName(i), stargazers |-> [totalCount |-> rs[i].stargazers_count],
         age |-> AgeDays(i)]]

\* The user object of a complete response to the query of each call site.
UserObject(site, rs, cal) ==
    CASE site = "get_extended_stats" ->
            [repositories |-> [edges |-> [i \in 1..Len(rs) |-> [node |-> RepoNodes(rs)[i]]]],
             contributionsCollection |-> ContributionsCollection(cal),
             followers |-> [totalCount |-> ServerCounts.followers],
             following |-> [totalCount |-> ServerCounts.following],
             starredRepositories |-> [totalCount |-> ServerCounts.starredRepositories],
             issues |-> [totalCount |-> ServerCounts.issues],
             pullRequests |-> [totalCount |-> ServerCounts.pullRequests]]
      [] site = "get_contribution_counts" ->
            [contributionsCollection |-> ContributionsCollection(cal)]
      [] site = "get_achievements" ->
            [followers |-> [totalCount |-> ServerCounts.followers],
             repositories |-> [nodes |-> RepoNodes(rs)]]
      [] OTHER ->
            [contributionsCollection |-> ContributionsCollection(cal)]

\* ---------------------------------------------------------- aggregators
\* Python's "not v" for the values a response body holds.
Falsy(v) == v = NoneVal \/ v = EmptyDict

\* dict.get(k)
Get(d, k) == IF k \in DOMAIN d THEN d[k] ELSE NoneVal

\* not result.get("data") or not result["data"].get("user")
InvalidStructure(result) ==
    IF Falsy(Get(result, "data")) THEN TRUE ELSE Falsy(Get(result.data, "user"))

\* The call of graphql_query inside an aggregator's try block raised, or
\* returned None and result.get raised AttributeError: the except branch runs.
ExceptBranch(w) == w.status = "raised" \/ w.result = NoneVal

\* max(nodes, key=stargazers totalCount, default=None): the first of the
\* most starred, 0 when there is none.
MostStarred(nodes) ==
    IF Len(nodes) = 0 THEN 0
    ELSE CHOOSE i \in 1..Len(nodes) :
           /\ \A j \in 1..Len(nodes) :
                nodes[j].stargazers.totalCount <= nodes[i].stargazers.totalCount
           /\ \A j \in 1..(i - 1) :
                nodes[j].stargazers.totalCount < nodes[i].stargazers.totalCount

\* f"{name} ({stars} stars)" if most_starred else "None"
MostStarredInfo(nodes) ==
    IF MostStarred(nodes) = 0 THEN "None"
    ELSE nodes[MostStarred(nodes)].name \o " (" \o
         ToString(nodes[MostStarred(nodes)].stargazers.totalCount) \o " stars)"

DefaultCalendar == [totalContributions |-> 0, weeks |-> << >>]

\* A variant whose except branch re-raises.
get_contribution_historyReraising(w) ==
    IF ExceptBranch(w) THEN [raises |-> "Exception", result |-> DefaultCalendar]
    ELSE IF InvalidStructure(w.result) THEN [raises |-> "none", result |-> DefaultCalendar]
    ELSE IF "contributionsCollection" \notin DOMAIN w.result.data.user
    THEN [raises |-> "Exception", result |-> DefaultCalendar]
    ELSE [raises |-> "none",
          result |-> w.result.data.user.contributionsCollection.contributionCalendar]

\* get_contribution_history's body (lines 213-225) once graphql_query ended
\* as w: what it raises and what it returns.
get_contribution_history(w) ==
    IF ExceptBranch(w) THEN [raises |-> "none", result |-> DefaultCalendar]
    ELSE IF InvalidStructure(w.result) THEN [raises |-> "none", result |-> DefaultCalendar]
    ELSE IF "contributionsCollection" \notin DOMAIN w.result.data.user
    THEN [raises |-> "none", result |-> DefaultCalendar]
    ELSE [raises |-> "none",
          result |-> w.result.data.user.contributionsCollection.contributionCalendar]

ExtendedKeys == {"repositories", "contributionsCollection", "starredRepositories",
                 "issues", "pullRequests", "followers", "following"}

Returns(v) == [raises |-> "none", result |-> v]

\* A variant without the structure check whose except catches request failures only.
get_extended_statsNarrowCatch(w) ==
    IF w.status = "raised" THEN Returns(EmptyDict)
    ELSE IF w.result = NoneVal \/ Get(w.result, "data") = NoneVal
    THEN [raises |-> "TypeError", result |-> NoData]
    ELSE IF Get(w.result.data, "user") = NoneVal
    THEN (IF "user" \in DOMAIN w.result.data
          THEN [raises |-> "TypeError", result |-> NoData]
          ELSE Returns(EmptyDict))
    ELSE IF ~(ExtendedKeys \subseteq DOMAIN w.result.data.user) THEN Returns(EmptyDict)
    ELSE Returns([total_contributions |-> 0])

\* get_extended_stats (lines 282-321) once graphql_query ended as w: what it
\* raises and what it returns.
get_extended_stats(w) ==
    IF ExceptBranch(w) THEN Returns(EmptyDict)
    ELSE IF InvalidStructure(w.result) THEN Returns(EmptyDict)
    ELSE IF ~(ExtendedKeys \subseteq DOMAIN w.result.data.user) THEN Returns(EmptyDict)
    ELSE LET data == w.result.data.user
             c == data.contributionsCollection
             edges == data.repositories.edges
             nodes == [i \in 1..Len(edges) |-> edges[i].node]
         IN Returns(
            [total_contributions |-> c.contributionCalendar.totalContributions,
             public_contributions |->
                 c.totalCommitContributions + c.totalIssueContributions +
                 c.totalPullRequestContributions + c.totalPullRequestReviewContributions,
             private_contributions |-> c.restrictedContributionsCount,
             stars_given |-> data.starredRepositories.totalCount,
             most_starred_repo |-> MostStarredInfo(nodes),
             total_issues |-> data.issues.totalCount,
             total_prs |-> data.pullRequests.totalCount,
             followers |-> data.followers.totalCount,
             following |-> data.following.totalCount])

\* get_contribution_counts (lines 338-355) once graphql_query ended as w.
get_contribution_counts(w) ==
    IF ExceptBranch(w) THEN Returns(EmptyDict)
    ELSE IF InvalidStructure(w.result) THEN Returns(EmptyDict)
    ELSE IF "contributionsCollection" \notin DOMAIN w.result.data.user
    THEN Returns(EmptyDict)
    ELSE LET c == w.result.data.user.contributionsCollection
         IN Returns(
            [commits |-> c.totalCommitContributions,
             private |-> c.restrictedContributionsCount,
             issues |-> c.totalIssueContributions,
             prs |-> c.totalPullRequestContributions,
             reviews |-> c.totalPullRequestReviewContributions])

\* ------------------------------------------------------ calendar dates
\* A date string "YYYY-MM-DD" and the datetime strptime makes of it are both
\* held as [y, m, d]; datetimes compare by their fields and subtract through
\* their proleptic Gregorian ordinals.
IsLeap(y) == (y % 4 = 0) /\ ((y % 100 # 0) \/ (y % 400 = 0))

DaysInMonth(y, m) ==
    IF m = 2 THEN (IF IsLeap(y) THEN 29 ELSE 28)
    ELSE IF m \in {4, 6, 9, 11} THEN 30 ELSE 31

RECURSIVE DaysBeforeMonth(_, _)
DaysBeforeMonth(y, m) ==
    IF m = 1 THEN 0 ELSE DaysBeforeMonth(y, m - 1) + DaysInMonth(y, m - 1)

\* datetime.toordinal
Ordinal(dt) ==
    LET p == dt.y - 1 IN
    365 * p + (p \div 4) - (p \div 100) + (p \div 400) + DaysBeforeMonth(dt.y, dt.m) + dt.d

\* (a - b).days
DeltaDays(a, b) == Ordinal(a) - Ordinal(b)

\* a < b on datetimes
Before(a, b) ==
    \/ a.y < b.y
    \/ a.y = b.y /\ a.m < b.m
    \/ a.y = b.y /\ a.m = b.m /\ a.d < b.d

MonthAbbr == << "Jan", "Feb", "Mar", "Apr", "May", "Jun",
                "Jul", "Aug", "Sep", "Oct", "Nov", "Dec" >>

\* strftime("%b %d, %Y")
Strftime(dt) ==
    MonthAbbr[dt.m] \o " " \o (IF dt.d < 10 THEN "0" ELSE "") \o ToString(dt.d)
    \o ", " \o ToString(dt.y)

\* ------------------------------------------------------ get_achievements
\* Lines 360-364: the dates of the days with a positive count, in the order
\* the weeks and their days arrive.
RECURSIVE DaysOfWeek(_)
DaysOfWeek(days) ==
    IF days = << >> THEN << >>
    ELSE (IF Head(days).contributionCount > 0 THEN << Head(days).date >> ELSE << >>)
         \o DaysOfWeek(Tail(days))

RECURSIVE CollectDays(_)
CollectDays(weeks) ==
    IF weeks = << >> THEN << >>
    ELSE DaysOfWeek(Head(weeks).contributionDays) \o CollectDays(Tail(weeks))

\* list.sort() on datetimes (line 368).
RECURSIVE Insert(_, _)
Insert(sorted, dt) ==
    IF sorted = << >> THEN << dt >>
    ELSE IF Before(dt, Head(sorted)) THEN << dt >> \o sorted
    ELSE << Head(sorted) >> \o Insert(Tail(sorted), dt)

RECURSIVE SortDays(_)
SortDays(days) ==
    IF days = << >> THEN << >> ELSE Insert(SortDays(Tail(days)), Head(days))

\* The loop of lines 369-375 from index i (1-based position of all_days[i]
\* in Python's 0-based range(1, len)) with the running streak and maximum.
RECURSIVE StreakScan(_, _, _, _)
StreakScan(days, i, streak, best) ==
    IF i > Len(days) THEN best
    ELSE IF DeltaDays(days[i], days[i - 1]) = 1
    THEN StreakScan(days, i + 1, streak + 1, IF streak + 1 > best THEN streak + 1 ELSE best)
    ELSE StreakScan(days, i + 1, 1, best)

\* A variant that scans the days in arrival order, without the sort.
StreakOfUnsorted(cal) ==
    LET days == CollectDays(cal.weeks) IN
    [all_days |-> days,
     max_streak |-> StreakScan(days, 2, 1, 1),
     first_contribution |-> IF days # << >> THEN Strftime(days[1]) ELSE "N/A"]

\* Lines 360-377: all_days after the sort, max_streak and first_contribution.
StreakOf(cal) ==
    LET days == SortDays(CollectDays(cal.weeks)) IN
    [all_days |-> days,
     max_streak |-> StreakScan(days, 2, 1, 1),
     first_contribution |-> IF days # << >> THEN Strftime(days[1]) ELSE "N/A"]

\* Python's round() of the quotient n / d of positive integers: to the
\* nearest integer, ties to the even one.
RoundHalfEven(n, d) ==
    LET q == n \div d
        r == n % d
    IN IF 2 * r < d THEN q
       ELSE IF 2 * r > d THEN q + 1
       ELSE IF q % 2 = 0 THEN q ELSE q + 1

\* max(repos, key=createdAt, default=None): the first of the newest, 0 when
\* there is none.
Newest(nodes) ==
    IF Len(nodes) = 0 THEN 0
    ELSE CHOOSE i \in 1..Len(nodes) :
           /\ \A j \in 1..Len(nodes) : nodes[i].age <= nodes[j].age
           /\ \A j \in 1..(i - 1) : nodes[i].age < nodes[j].age

\* round(current_followers / max(days_active/365, 1)), lines 419-424.
FollowersGained(followers, nodes) ==
    LET days_active == IF Newest(nodes) = 0 THEN 365 ELSE nodes[Newest(nodes)].age
    IN IF days_active <= 365 THEN followers
       ELSE RoundHalfEven(followers * 365, days_active)

\* The dict of lines 439-444 and of the else branch of lines 426-428.
AchievementsDefault(streak) ==
    [longest_streak |-> streak.max_streak,
     first_contribution |-> streak.first_contribution,
     followers_gained |-> 0, most_starred_repo |-> "None"]

\* Lines 399-444 once graphql_query ended as w, with the streak results.
get_achievements(w, streak) ==
    IF ExceptBranch(w) THEN Returns(AchievementsDefault(streak))
    ELSE IF InvalidStructure(w.result) THEN Returns(AchievementsDefault(streak))
    ELSE IF ~({"repositories", "followers"} \subseteq DOMAIN w.result.data.user)
    THEN Returns(AchievementsDefault(streak))
    ELSE LET data == w.result.data.user
             nodes == data.repositories.nodes
         IN Returns(
            [longest_streak |-> streak.max_streak,
             first_contribution |-> streak.first_contribution,
             followers_gained |-> FollowersGained(data.followers.totalCount, nodes),
             most_starred_repo |-> MostStarredInfo(nodes)])

\* ------------------------------------------------------ temporary files
ChartFile == "contribution_chart.png"
PieFile == "languages_pie_chart.png"

\* The files the finally clause goes through, in its order (line 509).
TempFileList == << ChartFile, PieFile >>

\* A variant in which a failing os.remove is not caught.
RECURSIVE RemoveTempFilesUncaught(_, _, _)
RemoveTempFilesUncaught(files, existing, failing) ==
    IF files = << >> THEN [attempted |-> {}, failed |-> {}, raises |-> "none"]
    ELSE LET f == Head(files) IN
         IF f \notin existing THEN RemoveTempFilesUncaught(Tail(files), existing, failing)
         ELSE IF f \in failing
         THEN [attempted |-> {f}, failed |-> {f}, raises |-> "PermissionError"]
         ELSE LET rest == RemoveTempFilesUncaught(Tail(files), existing, failing)
              IN [rest EXCEPT !.attempted = @ \cup {f}]

\* The loop of create_image's finally clause (lines 509-514) over files:
\* os.remove is attempted for each file that exists; for the files in
\* failing it raises, which is caught and logged.  The files whose removal
\* was attempted, those for which it failed, and the exception that leaves
\* the loop ("none": every failure is caught).
RECURSIVE RemoveTempFiles(_, _, _)
RemoveTempFiles(files, existing, failing) ==
    IF files = << >> THEN [attempted |-> {}, failed |-> {}, raises |-> "none"]
    ELSE LET f == Head(files)
             rest == RemoveTempFiles(Tail(files), existing, failing)
         IN IF f \notin existing THEN rest
            ELSE IF f \in failing
            THEN [rest EXCEPT !.attempted = @ \cup {f}, !.failed = @ \cup {f}]
            ELSE [rest EXCEPT !.attempted = @ \cup {f}]

\* The finally clause ran as c while pending was on its way out of
\* create_image ("none": a normal return): the files left are those that
\* were not attempted or whose removal failed.
Finally(c, pending) ==
    /\ tempFiles' = (tempFiles \ c.attempted) \cup c.failed
    /\ cleanup' = [ran |-> TRUE, existed |-> tempFiles, attempted |-> c.attempted,
                   failed |-> c.failed, pending |-> pending]

\* A variant that saves the image on the way out of a failure.
CreateImageFailsAfterWrite(e) ==
    /\ \E failing \in SUBSET tempFiles :
         LET c == RemoveTempFiles(TempFileList, tempFiles, failing) IN
         /\ Finally(c, e)
         /\ Raise(IF c.raises # "none" THEN c.raises ELSE e)
    /\ outputWrites' = outputWrites + 1

\* create_image's except and finally clauses and main's handler, for an
\* exception e raised under create_image: each temporary file that exists
\* is removed unless os.remove fails for it; e propagates.
CreateImageFails(e) ==
    /\ \E failing \in SUBSET tempFiles :
         LET c == RemoveTempFiles(TempFileList, tempFiles, failing) IN
         /\ Finally(c, e)
         /\ Raise(IF c.raises # "none" THEN c.raises ELSE e)
    /\ UNCHANGED outputWrites

\* --------------------------------------------- graphql_query call sites
GraphqlSites == {"get_extended_stats", "get_contribution_counts",
                 "get_contribution_history", "ach_history", "get_achievements"}

\* The call of graphql_query at the current position: the one in progress,
\* or a new one.
Call == IF gq.site = pc THEN gq ELSE [FreshCall EXCEPT !.site = pc]

\* One iteration of the retry loop around graphql_query: the body runs (the
\* guard, then the POST), and on failure the wrapper counts, sleeps or raises.
GraphqlAttempt ==
    /\ pc \in GraphqlSites
    /\ Call.status = "running"
    /\ \E rl \in RunRateLimitResponses, kind \in GraphqlKinds :
         LET w == Call
             r == graphql_query(rl, kind, UserObject(pc, repos, calendar))
             w2 == retry_on_error(w, r)
         IN IF w.retries < max_retries
            THEN /\ gq' = [w2 EXCEPT
                           !.posts = @ + (IF r.dataSent THEN 1 ELSE 0),
                           !.answer = IF r.dataSent THEN kind ELSE "none",
                           !.postFailures = @ + (IF r.dataSent /\ kind \in {"transport", "http_error"}
                                                 THEN 1 ELSE 0)]
                 /\ Account("graphql_query", r.guard, r.sent, r.dataSent)
                 /\ lastSlept' = w2.waited - w.waited
            ELSE /\ gq' = w2
                 /\ NoRequest
                 /\ lastSlept' = 0
    /\ UNCHANGED << envVars, pc, outcome, exc, limits, outer, serverVars, mainVars,
                    drawVars, achVars, fileVars >>

Finished == gq.site = pc /\ gq.status # "running"

\* ------------------------------------------------------- create_image
\* main line 626 and create_image lines 491-495: the generator, the canvas
\* and the header; _draw_statistics comes next.
CreateImageStart ==
    /\ pc = "create_image"
    /\ pc' = "get_extended_stats"
    /\ NoRequest
    /\ lastSlept' = 0
    /\ UNCHANGED << envVars, outcome, exc, limits, gq, outer, serverVars,
                    mainVars, drawVars, achVars, fileVars >>

\* _draw_statistics line 533: ext_stats = get_extended_stats().
GetExtendedStatsReturn ==
    /\ pc = "get_extended_stats"
    /\ Finished
    /\ LET a == get_extended_stats(gq) IN
         IF a.raises = "none"
         THEN /\ ext_stats' = a.result
              /\ pc' = "get_contribution_counts"
              /\ UNCHANGED << outcome, exc, fileVars >>
         ELSE CreateImageFails(a.raises) /\ UNCHANGED ext_stats
    /\ NoRequest
    /\ lastSlept' = 0
    /\ UNCHANGED << envVars, limits, gq, outer, serverVars, mainVars,
                    contribution_counts, contribution_data, achVars >>

\* _draw_statistics line 534: contribution_counts = get_contribution_counts().
GetContributionCountsReturn ==
    /\ pc = "get_contribution_counts"
    /\ Finished
    /\ LET a == get_contribution_counts(gq) IN
         IF a.raises = "none"
         THEN /\ contribution_counts' = a.result
              /\ pc' = "draw_metrics"
              /\ UNCHANGED << outcome, exc, fileVars >>
         ELSE CreateImageFails(a.raises) /\ UNCHANGED contribution_counts
    /\ NoRequest
    /\ lastSlept' = 0
    /\ UNCHANGED << envVars, limits, gq, outer, serverVars, mainVars,
                    ext_stats, contribution_data, achVars >>

\* The keys of ext_stats the metrics lines read (lines 537-540).
MetricKeys == {"total_contributions", "public_contributions", "private_contributions",
               "stars_given", "total_issues", "total_prs", "followers", "following"}

\* _draw_statistics lines 536-544: the metrics text.  The try block opened
\* at line 531 has no handler in the source, so a KeyError leaves
\* _draw_statistics and reaches create_image's except clause.
DrawMetrics ==
    /\ pc = "draw_metrics"
    /\ IF MetricKeys \subseteq DOMAIN ext_stats /\ "stars" \in DOMAIN repo_data
       THEN /\ pc' = "get_contribution_history"
            /\ UNCHANGED << outcome, exc, fileVars >>
       ELSE CreateImageFails("KeyError")
    /\ NoRequest
    /\ lastSlept' = 0
    /\ UNCHANGED << envVars, limits, gq, outer, serverVars, mainVars,
                    drawVars, achVars >>

\* The retry-wrapped get_contribution_history, called at line 549 and at
\* line 359, once its graphql_query ended: the body's result goes through
\* one iteration of the outer retry loop.
GetContributionHistoryReturn ==
    /\ pc \in {"get_contribution_history", "ach_history"}
    /\ Finished
    /\ LET body == get_contribution_history(gq)
           o == [retry_on_error(outer, body) EXCEPT !.posts = @ + gq.posts, !.site = pc]
       IN /\ outer' = o
          /\ lastSlept' = o.waited - outer.waited
          /\ CASE o.status = "returned" ->
                    /\ contribution_data' = o.result
                    /\ pc' = IF pc = "ach_history" THEN "ach_streak" ELSE "draw_chart"
                    /\ UNCHANGED << gq, outcome, exc >>
               [] o.status = "raised" /\ pc = "ach_history" ->
                    /\ Raise(o.exc)
                    /\ UNCHANGED << gq, contribution_data >>
               [] o.status = "raised" /\ pc # "ach_history" ->
                    /\ pc' = "save"
                    /\ UNCHANGED << gq, contribution_data, outcome, exc >>
               [] OTHER ->
                    /\ gq' = FreshCall
                    /\ UNCHANGED << pc, contribution_data, outcome, exc >>
    /\ NoRequest
    /\ UNCHANGED << envVars, limits, serverVars, mainVars, ext_stats,
                    contribution_counts, achVars, fileVars >>

\* _draw_statistics lines 550-556: the contribution chart is drawn to its
\* temporary file and pasted; a failure (before or after the file exists) is
\* logged and swallowed.
DrawContributionChart ==
    /\ pc = "draw_chart"
    /\ \E written \in BOOLEAN :
         tempFiles' = IF written THEN tempFiles \cup {ChartFile} ELSE tempFiles
    /\ pc' = "save"
    /\ NoRequest
    /\ lastSlept' = 0
    /\ UNCHANGED << envVars, outcome, exc, limits, gq, outer, serverVars,
                    mainVars, drawVars, achVars, outputWrites, cleanup >>

\* create_image lines 501-514 and main's return: the image is saved (or the
\* save raises), then the temporary files are removed.
SaveImage ==
    /\ pc = "save"
    /\ \E saved \in BOOLEAN :
         IF saved
         THEN /\ outputWrites' = outputWrites + 1
              /\ \E failing \in SUBSET tempFiles :
                   LET c == RemoveTempFiles(TempFileList, tempFiles, failing) IN
                   /\ Finally(c, "none")
                   /\ IF c.raises # "none"
                      THEN Raise(c.raises)
                      ELSE /\ outcome' = "returned"
                           /\ pc' = "done"
                           /\ UNCHANGED exc
         ELSE CreateImageFails("OSError")
    /\ NoRequest
    /\ lastSlept' = 0
    /\ UNCHANGED << envVars, limits, gq, outer, serverVars, mainVars,
                    drawVars, achVars >>

\* ---------------------------------------------------- get_achievements
\* Lines 360-377 on the calendar get_contribution_history returned.
AchievementsStreak ==
    /\ pc = "ach_streak"
    /\ LET s == StreakOf(contribution_data) IN
         /\ all_days' = s.all_days
         /\ max_streak' = s.max_streak
         /\ first_contribution' = s.first_contribution
    /\ pc' = "get_achievements"
    /\ NoRequest
    /\ lastSlept' = 0
    /\ UNCHANGED << envVars, outcome, exc, limits, gq, outer, serverVars,
                    mainVars, drawVars, achievements, fileVars >>

\* Lines 399-444: the follower query ended; get_achievements returns.
GetAchievementsReturn ==
    /\ pc = "get_achievements"
    /\ Finished
    /\ LET a == get_achievements(gq, [max_streak |-> max_streak,
                                      first_contribution |-> first_contribution])
       IN IF a.raises = "none"
          THEN /\ achievements' = a.result
               /\ outcome' = "returned"
               /\ pc' = "done"
               /\ UNCHANGED exc
          ELSE Raise(a.raises) /\ UNCHANGED achievements
    /\ NoRequest
    /\ lastSlept' = 0
    /\ UNCHANGED << envVars, limits, gq, outer, serverVars, mainVars,
                    drawVars, all_days, max_streak, first_contribution, fileVars >>

\* A stand-alone call of validate_rate_limit on the response `limits`.
ValidateRateLimitCall ==
    /\ pc = "validate_rate_limit"
    /\ LET guard == validate_rate_limit(limits) IN
         /\ Account("validate_rate_limit", guard, 1, FALSE)
         /\ IF guard.raises = "none"
            THEN outcome' = "returned" /\ pc' = "done" /\ UNCHANGED exc
            ELSE Raise(guard.raises)
    /\ lastSlept' = 0
    /\ UNCHANGED << envVars, limits, gq, outer, serverVars, mainVars,
                    drawVars, achVars, fileVars >>

\* ------------------------------------------------------------- inputs
Date(y, m, d) == [y |-> y, m |-> m, d |-> d]

\* The calendar dates a contribution day may carry: they span a year end
\* and the end of a leap February.
Dates == {Date(2023, 12, 31), Date(2024, 1, 1), Date(2024, 1, 2), Date(2024, 1, 3),
          Date(2024, 1, 10), Date(2024, 2, 29), Date(2024, 3, 1)}

DayRecords == [date : Dates, contributionCount : {0, 2}]

\* Contribution days in any order of arrival, no date twice.
DistinctDates(s) == \A i, j \in 1..Len(s) : i < j => s[i].date # s[j].date

RECURSIVE SumCounts(_)
SumCounts(s) ==
    IF s = << >> THEN 0 ELSE Head(s).contributionCount + SumCounts(Tail(s))

\* The calendar holding the days s, in one week (k = 0) or split into two
\* weeks after the k-th day.
MakeCalendar(s, k) ==
    [totalContributions |-> SumCounts(s),
     weeks |-> IF s = << >> THEN << >>
               ELSE IF k = 0 THEN << [contributionDays |-> s] >>
               ELSE << [contributionDays |-> SubSeq(s, 1, k)],
                       [contributionDays |-> SubSeq(s, k + 1, Len(s))] >>]

\* Days 2024-01-03, 01-01, 01-10, 01-02 with contributions and an idle
\* 2024-02-29, in two weeks.
ExampleCalendar ==
    MakeCalendar(<< [date |-> Date(2024, 1, 3), contributionCount |-> 2],
                    [date |-> Date(2024, 1, 1), contributionCount |-> 2],
                    [date |-> Date(2024, 2, 29), contributionCount |-> 0],
                    [date |-> Date(2024, 1, 10), contributionCount |-> 2],
                    [date |-> Date(2024, 1, 2), contributionCount |-> 2] >>, 2)

RunCalendars == {DefaultCalendar, ExampleCalendar}

Languages == {NoLanguage, "", "Go", "Rust"}
RepoRecords == [stargazers_count : {0, 2, 3, 5}, language : Languages]

ExampleRepos ==
    << [stargazers_count |-> 5, language |-> "Go"],
       [stargazers_count |-> 3, language |-> NoLanguage],
       [stargazers_count |-> 2, language |-> "Go"] >>

RunRepoLists == {<< >>, ExampleRepos}

\* --------------------------------------------------------------- Init
Unchecked == [raises |-> "unchecked", warned |-> FALSE]
NoAttempt == [fn |-> "none", guard |-> "none", dataSent |-> FALSE]

NoCleanup == [ran |-> FALSE, existed |-> {}, attempted |-> {}, failed |-> {},
              pending |-> "none"]

\* The state before anything ran.
Blank ==
    /\ outcome = "running"
    /\ exc = "none"
    /\ requested = FALSE
    /\ lastSent = 0
    /\ lastSlept = 0
    /\ rlOutcome = Unchecked
    /\ rateLimitRaised = FALSE
    /\ att = NoAttempt
    /\ gq = FreshCall
    /\ outer = FreshCall
    /\ user_data = NoData
    /\ repo_data = NoData
    /\ contributions = 0
    /\ ext_stats = NoData
    /\ contribution_counts = NoData
    /\ contribution_data = NoData
    /\ achievements = NoData
    /\ all_days = << >>
    /\ max_streak = 0
    /\ first_contribution = ""
    /\ outputWrites = 0
    /\ cleanup = NoCleanup

\* python stats_script.py: main() with any environment.
InitMain ==
    /\ entry = "main"
    /\ pc = "main"
    /\ GITHUB_TOKEN \in EnvValues
    /\ USERNAME \in EnvValues
    /\ limits = NoLimits
    /\ repos \in RunRepoLists
    /\ calendar = ExampleCalendar
    /\ tempFiles \in SUBSET {PieFile}
    /\ Blank

\* A call of get_achievements() with the configuration set.
InitAchievements ==
    /\ entry = "get_achievements"
    /\ pc = "ach_history"
    /\ GITHUB_TOKEN = "x"
    /\ USERNAME = "x"
    /\ limits = NoLimits
    /\ repos \in RunRepoLists
    /\ calendar \in RunCalendars
    /\ tempFiles = {}
    /\ Blank

Init == InitMain \/ InitAchievements

Next ==
    \/ MainConfigValidate
    \/ MainValidateRateLimit
    \/ GetUserData
    \/ GetRepoData
    \/ GetContributions
    \/ CreateImageStart
    \/ GraphqlAttempt
    \/ GetExtendedStatsReturn
    \/ GetContributionCountsReturn
    \/ DrawMetrics
    \/ GetContributionHistoryReturn
    \/ DrawContributionChart
    \/ SaveImage
    \/ AchievementsStreak
    \/ GetAchievementsReturn

Spec == Init /\ [][Next]_vars

\* validate_rate_limit alone, on every response.
InitRate ==
    /\ entry = "validate_rate_limit"
    /\ pc = "validate_rate_limit"
    /\ GITHUB_TOKEN = "x"
    /\ USERNAME = "x"
    /\ limits \in RateLimitResponses
    /\ repos = << >>
    /\ calendar = DefaultCalendar
    /\ tempFiles = {}
    /\ Blank

NextRate == ValidateRateLimitCall

SpecRate == InitRate /\ [][NextRate]_vars

\* get_repo_data alone, on every repository list: the state main is in when
\* it reaches line 622.
InitRepo ==
    /\ entry = "main"
    /\ pc = "get_repo_data"
    /\ GITHUB_TOKEN = "x"
    /\ USERNAME = "x"
    /\ limits = NoLimits
    /\ \E n \in 0..MaxRepos : repos \in [1..n -> RepoRecords]
    /\ calendar = ExampleCalendar
    /\ tempFiles = {}
    /\ outcome = "running"
    /\ exc = "none"
    /\ requested = TRUE
    /\ lastSent = 2
    /\ lastSlept = 0
    /\ rlOutcome = [raises |-> "none", warned |-> FALSE]
    /\ rateLimitRaised = FALSE
    /\ att = [fn |-> "fetch_data", guard |-> "none", dataSent |-> TRUE]
    /\ gq = FreshCall
    /\ outer = FreshCall
    /\ user_data = [username |-> "x"]
    /\ repo_data = NoData
    /\ contributions = 0
    /\ ext_stats = NoData
    /\ contribution_counts = NoData
    /\ contribution_data = NoData
    /\ achievements = NoData
    /\ all_days = << >>
    /\ max_streak = 0
    /\ first_contribution = ""
    /\ outputWrites = 0
    /\ cleanup = NoCleanup

NextRepo == GetRepoData

SpecRepo == InitRepo /\ [][NextRepo]_vars

\* The call of graphql_query get_contribution_history made for the calendar
\* cal when its first attempt succeeded.
HistoryCall(cal) ==
    [retry_on_error([FreshCall EXCEPT !.site = "ach_history"],
                    graphql_query(Quota(MIN_REMAINING_CALLS, MIN_REMAINING_CALLS,
                                        MIN_REMAINING_CALLS),
                                  "ok", UserObject("ach_history", << >>, cal)))
        EXCEPT !.posts = 1, !.answer = "ok"]

\* Lines 360-377 of get_achievements alone, on every calendar: the state
\* get_achievements is in when get_contribution_history has returned it.
InitStreak ==
    /\ entry = "get_achievements"
    /\ pc = "ach_streak"
    /\ GITHUB_TOKEN = "x"
    /\ USERNAME = "x"
    /\ limits = NoLimits
    /\ repos = << >>
    /\ \E n \in 0..MaxDays : \E s \in [1..n -> DayRecords] : \E k \in {0, n \div 2} :
          /\ DistinctDates(s)
          /\ calendar = MakeCalendar(s, k)
    /\ tempFiles = {}
    /\ outcome = "running"
    /\ exc = "none"
    /\ requested = TRUE
    /\ lastSent = 0
    /\ lastSlept = 0
    /\ rlOutcome = [raises |-> "none", warned |-> FALSE]
    /\ rateLimitRaised = FALSE
    /\ att = [fn |-> "graphql_query", guard |-> "none", dataSent |-> TRUE]
    /\ gq = HistoryCall(calendar)
    /\ outer = [retry_on_error(FreshCall, get_contribution_history(gq))
                   EXCEPT !.posts = 1, !.site = "ach_history"]
    /\ contribution_data = outer.result
    /\ user_data = NoData
    /\ repo_data = NoData
    /\ contributions = 0
    /\ ext_stats = NoData
    /\ contribution_counts = NoData
    /\ achievements = NoData
    /\ all_days = << >>
    /\ max_streak = 0
    /\ first_contribution = ""
    /\ outputWrites = 0
    /\ cleanup = NoCleanup

NextStreak == AchievementsStreak

SpecStreak == InitStreak /\ [][NextStreak]_vars

\* =============================================================== claims

\* C1 (as stated): Config.validate fails exactly when the access token or
\* the account identifier is absent from the environment, and succeeds for
\* every value that is present, whatever its content.
C1_FailsOnlyWhenAbsent ==
    (entry = "main" /\ pc # "main") =>
        ((exc = "ValueError") <=> (GITHUB_TOKEN = Absent \/ USERNAME = Absent))

\* C1 (amended): Config.validate fails exactly when the access token or the
\* account identifier is absent or the empty string, and succeeds for every
\* other value; main runs it before any network call, so a run it fails has
\* sent no HTTP request and ends by raising.
C1_FailsWhenAbsentOrEmpty ==
    /\ (entry = "main" /\ pc # "main") =>
           ((exc = "ValueError") <=>
               (GITHUB_TOKEN \in {Absent, ""} \/ USERNAME \in {Absent, ""}))
    /\ pc = "main" => ~requested
    /\ exc = "ValueError" => (~requested /\ outcome = "raised" /\ pc = "done")

\* C1 witness: a run whose token is set but empty was refused without a request.
C1_Witness ==
    /\ pc = "done"
    /\ exc = "ValueError"
    /\ GITHUB_TOKEN = ""
    /\ USERNAME = "x"
    /\ ~requested

\* C2: on every rate-limit response validate_rate_limit raises RateLimitError
\* exactly when core, graphql or search has 0 remaining; when all have at
\* least 1 it returns, and it has logged the low-quota warning exactly when
\* one of them is below MIN_REMAINING_CALLS.
C2_RaisesIffExhausted ==
    (pc = "done" /\ limits.status = "ok") =>
        /\ (outcome = "raised" /\ exc = "RateLimitError")
               <=> (limits.core = 0 \/ limits.graphql = 0 \/ limits.search = 0)
        /\ (limits.core >= 1 /\ limits.graphql >= 1 /\ limits.search >= 1)
               => outcome = "returned"
        /\ rlOutcome.warned
               <=> (\/ limits.core < MIN_REMAINING_CALLS
                    \/ limits.graphql < MIN_REMAINING_CALLS
                    \/ limits.search < MIN_REMAINING_CALLS)

\* C2 witness: a response below the low-water mark in one category, none
\* exhausted, was accepted with a warning.
C2_Witness ==
    /\ pc = "done"
    /\ outcome = "returned"
    /\ limits.status = "ok"
    /\ limits.core = 1
    /\ limits.graphql = MIN_REMAINING_CALLS
    /\ rlOutcome.warned

\* C3 (as stated): once validate_rate_limit has raised RateLimitError in a
\* run of main, wherever it was called, the run is over: the step that
\* raised it slept for no retry, no step follows it (so no further request),
\* and main has terminated by raising RateLimitError.
C3_RateLimitAborts ==
    (entry = "main" /\ rateLimitRaised) =>
        (pc = "done" /\ outcome = "raised" /\ exc = "RateLimitError" /\ lastSlept = 0)

\* C4: a call of graphql_query makes at most max_retries attempts; while it
\* runs every attempt so far failed and was followed by one sleep of delay
\* seconds; when it returns, the attempt that succeeded was preceded by
\* failures only, each followed by one sleep, and its response body is the
\* result (never None); when it raises, exactly max_retries attempts failed,
\* max_retries - 1 sleeps were taken and the last failure is what is raised.
C4_RetryCounts ==
    /\ gq.attempts <= max_retries
    /\ gq.waited = delay * gq.sleeps
    /\ gq.status = "running" =>
           /\ gq.retries = gq.attempts
           /\ gq.sleeps = gq.attempts
           /\ gq.attempts < max_retries
    /\ gq.status = "returned" =>
           /\ gq.attempts >= 1
           /\ gq.retries = gq.attempts - 1
           /\ gq.sleeps = gq.attempts - 1
           /\ gq.result # NoneVal
           /\ gq.result # NoData
           /\ "errors" \notin DOMAIN gq.result
           /\ gq.answer \in GraphqlKinds \ {"transport", "http_error", "errors"}
           /\ gq.result = Body(gq.answer, UserObject(gq.site, repos, calendar))
    /\ gq.status = "raised" =>
           /\ gq.attempts = max_retries
           /\ gq.retries = max_retries
           /\ gq.sleeps = max_retries - 1
           /\ gq.exc = gq.last
           /\ gq.exc # "none"
           /\ gq.answer \in {"none", "transport", "http_error", "errors"}

\* C4 witness: a call that failed twice and succeeded on its third attempt,
\* after two sleeps.
C4_Witness ==
    /\ gq.status = "returned"
    /\ gq.attempts = max_retries
    /\ gq.sleeps = max_retries - 1
    /\ gq.answer = "ok"

\* The aggregator whose call of graphql_query is held in gq has returned its
\* zero-value default: {} for get_extended_stats and get_contribution_counts,
\* the empty calendar for get_contribution_history, followers_gained 0 and
\* most_starred_repo "None" for get_achievements.
ReturnedDefault ==
    /\ gq.site = "get_extended_stats" => ext_stats = EmptyDict
    /\ gq.site = "get_contribution_counts" => contribution_counts = EmptyDict
    /\ gq.site \in {"get_contribution_history", "ach_history"} =>
           contribution_data = [totalContributions |-> 0, weeks |-> << >>]
    /\ gq.site = "get_achievements" =>
           /\ outcome = "returned"
           /\ achievements.followers_gained = 0
           /\ achievements.most_starred_repo = "None"
           /\ achievements.longest_streak = max_streak

\* C5: when a GraphQL query of a run of main met a transport
\* failure on each of its 3 attempts, the run aborts: main has raised and no
\* artifact was written.
C5_TransportFailureAborts ==
    (entry = "main" /\ pc = "done" /\ gq.status = "raised"
        /\ gq.postFailures = max_retries)
    => (outcome = "raised" /\ outputWrites = 0)

\* C5 witness: the contribution-history query failed three times at the
\* transport, and the run still wrote the image and returned.
C5_Witness ==
    /\ entry = "main"
    /\ pc = "done"
    /\ gq.site = "get_contribution_history"
    /\ gq.status = "raised"
    /\ gq.postFailures = max_retries
    /\ contribution_data = DefaultCalendar
    /\ outcome = "returned"
    /\ outputWrites = 1

\* A 200 response body whose data key is absent or null, or whose nested
\* user key is absent or null.
Malformed(r) ==
    IF r = NoData \/ r = NoneVal THEN FALSE
    ELSE IF "data" \notin DOMAIN r THEN TRUE
    ELSE IF r.data = NoneVal THEN TRUE
    ELSE IF "user" \notin DOMAIN r.data THEN TRUE
    ELSE r.data.user = NoneVal

\* C6: when the response an aggregator's query returned lacks data or user
\* (absent or null), the aggregator returns its zero-value default and does
\* not raise: the caller goes on to its next step with no exception.
C6_MalformedGivesDefault ==
    (gq.status = "returned" /\ Malformed(gq.result) /\ gq.site # pc) =>
        /\ ReturnedDefault
        /\ pc # "done" => (outcome = "running" /\ exc = "none")

\* C6 witness: get_achievements got a response with a null user and returned
\* its default.
C6_Witness ==
    /\ pc = "done"
    /\ gq.site = "get_achievements"
    /\ gq.status = "returned"
    /\ gq.answer = "null_user"
    /\ outcome = "returned"
    /\ achievements.most_starred_repo = "None"
    /\ achievements.followers_gained = 0

\* C7 (as stated): a run of main in which get_extended_stats or
\* get_contribution_counts fell back to {} still completes create_image:
\* unless the save itself fails, the artifact is written and main returns.
C7_FallbackStillRenders ==
    (entry = "main" /\ pc = "done" /\ exc # "OSError"
        /\ (ext_stats = EmptyDict \/ contribution_counts = EmptyDict))
    => (outcome = "returned" /\ outputWrites = 1)

\* The dates of a calendar that have a positive contribution count.
Contributing(cal) ==
    {dt \in Dates :
        \E w \in 1..Len(cal.weeks) :
            \E i \in 1..Len(cal.weeks[w].contributionDays) :
                /\ cal.weeks[w].contributionDays[i].date = dt
                /\ cal.weeks[w].contributionDays[i].contributionCount > 0}

\* The calendar day after dt.
DayAfter(dt) ==
    IF dt.d < DaysInMonth(dt.y, dt.m) THEN Date(dt.y, dt.m, dt.d + 1)
    ELSE IF dt.m < 12 THEN Date(dt.y, dt.m + 1, 1)
    ELSE Date(dt.y + 1, 1, 1)

\* The number of consecutive calendar days from dt on that are all in S.
RECURSIVE RunFrom(_, _)
RunFrom(dt, S) == IF dt \in S THEN 1 + RunFrom(DayAfter(dt), S) ELSE 0

\* The length of the longest run of consecutive calendar days within S.
LongestRun(S) ==
    CHOOSE n \in 0..Cardinality(S) :
        /\ \A dt \in S : RunFrom(dt, S) <= n
        /\ S # {} => \E dt \in S : RunFrom(dt, S) = n

\* C8: for every calendar, in whatever order its days arrive, the
\* longest_streak get_achievements computes is the length of the longest
\* run of consecutive calendar days with a positive count; with no such day
\* it is 1 and first_contribution is "N/A" (and only then).
C8_LongestStreak ==
    pc = "get_achievements" =>
        LET S == Contributing(contribution_data) IN
        /\ max_streak = IF S = {} THEN 1 ELSE LongestRun(S)
        /\ (S = {}) <=> (first_contribution = "N/A")
        /\ Len(all_days) = Cardinality(S)

\* C8 witness: the days 2024-01-01, 01-02, 01-03 and 01-10 arrived out of
\* order and gave a longest streak of 3.
C8_Witness ==
    /\ pc = "get_achievements"
    /\ Contributing(contribution_data) =
           {Date(2024, 1, 1), Date(2024, 1, 2), Date(2024, 1, 3), Date(2024, 1, 10)}
    /\ CollectDays(contribution_data.weeks) # all_days
    /\ max_streak = 3
    /\ first_contribution = "Jan 01, 2024"

\* The total of stargazers_count over the repositories at the indices in I.
RECURSIVE StarsAt(_)
StarsAt(I) ==
    IF I = {} THEN 0
    ELSE LET i == CHOOSE j \in I : TRUE
         IN repos[i].stargazers_count + StarsAt(I \ {i})

\* C9: for every repository list get_repo_data returns as stars the sum of
\* stargazers_count over all repositories, those without a language
\* included, and as languages a mapping whose keys are the languages that
\* occur and whose values are the numbers of repositories having them.
C9_StarsAndLanguages ==
    (pc = "get_contributions" /\ entry = "main") =>
        /\ repo_data.stars = StarsAt(1..Len(repos))
        /\ DOMAIN repo_data.languages =
               {repos[i].language : i \in 1..Len(repos)} \ {NoLanguage, ""}
        /\ \A l \in DOMAIN repo_data.languages :
               repo_data.languages[l] =
                   Cardinality({i \in 1..Len(repos) : repos[i].language = l})

\* C9 witness: stars 5/Go, 3/no language, 2/Go gave stars 10 and {Go: 2}.
C9_Witness ==
    /\ pc = "get_contributions"
    /\ repos = ExampleRepos
    /\ repo_data.stars = 10
    /\ repo_data.languages = [l \in {"Go"} |-> 2]

RestSites == {"get_user_data", "get_repo_data", "get_contributions"}

\* C10: every data request follows a rate-limit check that passed in the
\* same attempt.  An attempt of fetch_data or graphql_query has sent its data
\* request exactly when its validate_rate_limit returned; an attempt whose
\* check raised sent the check's request only.  fetch_data makes one attempt:
\* it sleeps for no retry, and its failure ends the run.  Each retry attempt
\* of graphql_query makes its own check before its own POST.
C10_GuardBeforeRequest ==
    /\ [](att.fn \in {"fetch_data", "graphql_query"} =>
             (att.dataSent <=> att.guard = "none"))
    /\ [][(pc \in RestSites) =>
             ( /\ pc' # pc
               /\ att'.fn = "fetch_data"
               /\ lastSlept' = 0
               /\ lastSent' = IF att'.dataSent THEN 2 ELSE 1
               /\ att'.guard # "none" => (outcome' = "raised" /\ exc' = att'.guard) )]_vars
    /\ [][(pc \in GraphqlSites /\ gq'.site = pc /\ gq'.attempts = Call.attempts + 1) =>
             ( /\ att'.fn = "graphql_query"
               /\ lastSent' = IF att'.dataSent THEN 2 ELSE 1
               /\ gq'.posts = Call.posts + (IF att'.guard = "none" THEN 1 ELSE 0)
               /\ rlOutcome'.raises = att'.guard )]_vars

\* C10 witness: the second attempt of a graphql_query call, whose check
\* raised RateLimitError, sent no POST after the first attempt had sent one.
C10_Witness ==
    /\ att.fn = "graphql_query"
    /\ att.guard = "RateLimitError"
    /\ ~att.dataSent
    /\ lastSent = 1
    /\ gq.attempts = 2
    /\ gq.posts = 1

\* The positions of a run that lie inside create_image.
CreateImagePositions == {"get_extended_stats", "get_contribution_counts", "draw_metrics",
                         "get_contribution_history", "draw_chart", "save"}

\* C11: the temporary chart files are cleaned up on every exit path of
\* create_image.  Every step that leaves create_image, by return or by an
\* exception of a drawing or save step, ends the run with the finally clause
\* done; the finally clause attempted the removal of each temporary file that
\* existed, a failed removal of one not preventing the attempt on the other;
\* only the files whose removal failed are left; and create_image ends as it
\* would have without the cleanup: by return, or with the exception that was
\* on its way out.
C11_CleanupOnEveryExit ==
    /\ [][(pc \in CreateImagePositions /\ pc' \notin CreateImagePositions) =>
             (pc' = "done" /\ cleanup'.ran /\ cleanup'.existed = tempFiles)]_vars
    /\ [](cleanup.ran =>
             /\ pc = "done"
             /\ cleanup.attempted = cleanup.existed
             /\ tempFiles = cleanup.failed
             /\ exc = cleanup.pending
             /\ outcome = IF cleanup.pending = "none" THEN "returned" ELSE "raised")

\* C11 witness: the save raised while both temporary files existed; the
\* removal of contribution_chart.png failed, languages_pie_chart.png was
\* still removed, and create_image ended with the save's exception.
C11_Witness ==
    /\ pc = "done"
    /\ cleanup.ran
    /\ cleanup.existed = {ChartFile, PieFile}
    /\ cleanup.failed = {ChartFile}
    /\ tempFiles = {ChartFile}
    /\ exc = "OSError"
    /\ outcome = "raised"

\* C12: no partial artifact is written if the renderer raises.  The output
\* file is written at most once per run, by the save step only, which comes
\* after the metrics were drawn from a complete ext_stats; and when a drawing
\* step raised, the output file was never written and the exception has
\* propagated out of main.
C12_NoPartialArtifact ==
    /\ [][outputWrites' # outputWrites =>
             (pc = "save" /\ outputWrites = 0 /\ outputWrites' = 1
              /\ MetricKeys \subseteq DOMAIN ext_stats
              /\ cleanup'.pending = "none")]_vars
    /\ [](outputWrites <= 1)
    /\ []((entry = "main" /\ cleanup.pending = "KeyError") =>
             (outputWrites = 0 /\ pc = "done" /\ outcome = "raised" /\ exc = "KeyError"))

\* C12 witness: the metrics step raised KeyError on the empty ext_stats; the
\* run ended with main raising it and the output file unwritten.
C12_Witness ==
    /\ entry = "main"
    /\ pc = "done"
    /\ ext_stats = EmptyDict
    /\ cleanup.ran
    /\ cleanup.pending = "KeyError"
    /\ exc = "KeyError"
    /\ outcome = "raised"
    /\ outputWrites = 0

\* C13: one call of the retry-wrapped get_contribution_history never raises
\* and sends at most max_retries GraphQL POSTs in total: once its body has
\* gone through the outer retry loop, that loop has returned on its first
\* iteration, without a sleep and without None, having seen the POSTs of one
\* graphql_query call only; and while the call runs it has sent at most
\* max_retries POSTs.
C13_HistoryBounded ==
    /\ outer.site # "none" =>
           /\ outer.status = "returned"
           /\ outer.attempts = 1
           /\ outer.retries = 0
           /\ outer.sleeps = 0
           /\ outer.posts <= max_retries
           /\ gq.site = outer.site => outer.posts = gq.posts
           /\ outer.result # NoneVal
           /\ contribution_data = outer.result
           /\ exc = "none" \/ pc = "done"
    /\ (pc \in {"get_contribution_history", "ach_history"}) =>
           (outer.posts = 0 /\ Call.posts <= max_retries /\ outcome = "running")

\* C13 witness: all three POSTs of the call failed at the transport, and the
\* call returned the default calendar from the first outer iteration.
C13_Witness ==
    /\ outer.site = "get_contribution_history"
    /\ outer.status = "returned"
    /\ outer.attempts = 1
    /\ outer.posts = max_retries
    /\ gq.postFailures = max_retries
    /\ contribution_data = DefaultCalendar

====
